---- MODULE Spec2Model ----
(***************************************************************************)
(* Model of the bright_events_node backend:                                *)
(*   - EventsResourceImplementation (events.types.ts): the events table    *)
(*     and the create / getEvent / filterEvents / getAll / update / delete *)
(*     operations issued through the knex query builder;                   *)
(*   - the configuration loader (config/index.ts): joi validation of the   *)
(*     process environment;                                                *)
(*   - describeDbTestSuite (test lifecycle helper): the jest hooks that    *)
(*     roll back and re-apply the migrations around every test.            *)
(* Three specifications share the module: Spec (events resource),          *)
(* SpecConfig (configuration loader) and SpecSuite (test lifecycle).       *)
(***************************************************************************)
EXTENDS Integers, Sequences, FiniteSets, TLC

VARIABLES
    events,     \* the rows of the "events" table, in storage order
    nextId,     \* the identifier the storage generates for the next insert
    lastOp,     \* the last resource call: operation, arguments, result
    env,        \* process.env as read by the configuration loader
    cfgPc,      \* configuration loader: "start", "loaded" or "aborted" ("idle": not modelled)
    config,     \* <<the exported configuration object>>, <<>> while there is none
    suitePc,    \* position of the jest runner inside describeDbTestSuite
    db,         \* test database: migrations applied, rows present
    suiteEnv,   \* what getConfig() reports to the test helper: env, testDbName
    migLog,     \* the last two migration calls of the helper, most recent last
    testsLeft,  \* tests of the group that have not run yet
    bodySteps,  \* statements the running test body has executed
    leftBehind  \* the database as the previous test (or an aborted run) left it

vars == <<events, nextId, lastOp, env, cfgPc, config,
          suitePc, db, suiteEnv, migLog, testsLeft, bodySteps, leftBehind>>

eventVars  == <<events, nextId, lastOp>>
configVars == <<env, cfgPc, config>>
suiteVars  == <<suitePc, db, suiteEnv, migLog, testsLeft, bodySteps, leftBehind>>

----------------------------------------------------------------------------
(* Bounds of the events model *)

MaxId     == 3   \* the storage generates identifiers 1..MaxId
MaxOffset == 3   \* getAll offsets 0..MaxOffset
MaxLimit  == 2   \* getAll limits 0..MaxLimit
MaxFilterFields == 2   \* fields present in a filter body

----------------------------------------------------------------------------
(* Data model: events.types.ts *)

\* EventBody: the columns supplied by the caller (note the column is "tittle")
EventBodyFields ==
    {"tittle", "slug", "description", "location", "date", "time", "rsvpEndDate", "createdBy"}

\* RawEventBody: EventBody plus the generated id
RawEventBodyFields == EventBodyFields \cup {"id"}

\* EventLookUpKey
EventLookUpKey == {"id", "slug"}

\* The event bodies callers create with
BodyA == [tittle |-> "t1", slug |-> "s1", description |-> "desc", location |-> "NY",
          date |-> "d1", time |-> "10:00", rsvpEndDate |-> "d2", createdBy |-> "u1"]
BodyB == [tittle |-> "t2", slug |-> "s2", description |-> "desc", location |-> "LA",
          date |-> "d2", time |-> "10:00", rsvpEndDate |-> "d1", createdBy |-> "u1"]

EventBodies == {BodyA, BodyB}

\* UpdateEventBody: every field optional; a body is a function on the fields present
UpdateBodies ==
    { <<>>,
      [location |-> "SF", tittle |-> "t1"] }

\* The fields a caller may put in a filter body.  EventsFilter declares
\* "tittle", "description", ...; getQueryBuilderFunctions reads "location",
\* "title", "date", "rsvpEndDate" and "q".
FilterFieldValues ==
    [location    |-> {"NY", ""},
     title       |-> {"t1"},
     date        |-> {"d1"},
     rsvpEndDate |-> {"d2"},
     description |-> {"none"},
     q           |-> {"t2"}]

FilterFields == DOMAIN FilterFieldValues

\* filter bodies with at most MaxFilterFields fields present
FilterBodies ==
    UNION { { f \in [S -> UNION {FilterFieldValues[k] : k \in S}] :
                \A k \in S : f[k] \in FilterFieldValues[k] } :
            S \in { T \in SUBSET FilterFields : Cardinality(T) <= MaxFilterFields } }

Ids == 1..(MaxId + 1)
Slugs == {"s1", "s2", "s3"}

LookupValues(lookupKey) == IF lookupKey = "id" THEN Ids ELSE Slugs

----------------------------------------------------------------------------
(* Results of a resource call *)

Ok(rows)      == [kind |-> "ok", rows |-> rows, status |-> 0]
Undefined     == [kind |-> "undefined", rows |-> <<>>, status |-> 0]
Void          == [kind |-> "void", rows |-> <<>>, status |-> 0]
\* EventNotFountError(message, status?)
EventNotFountError(status) == [kind |-> "NotFound", rows |-> <<>>, status |-> status]
\* a failure raised by the query builder or the database, passed on unmodified
StorageError  == [kind |-> "error", rows |-> <<>>, status |-> 0]

NoArg == <<>>

Call(op, key, value, body, result) ==
    [op |-> op, key |-> key, value |-> value, body |-> body, result |-> result]

----------------------------------------------------------------------------
(* Query builder helpers *)

\* JavaScript truthiness of an optional string field: absent and "" are falsy
Truthy(body, field) == field \in DOMAIN body /\ body[field] # ""

\* the value read from an optional field: <<v>> when present, <<>> for undefined
Read(body, field) == IF field \in DOMAIN body THEN <<body[field]>> ELSE <<>>

RECURSIVE SelectSeq2(_, _)
\* the rows of a table satisfying a set of row indexes, in storage order
SelectSeq2(rows, keep) ==
    IF rows = <<>> THEN <<>>
    ELSE LET n == Len(rows)
             front == SelectSeq2(SubSeq(rows, 1, n - 1), keep)
         IN IF n \in keep THEN Append(front, rows[n]) ELSE front

\* .where(column, value): the row indexes whose column equals the value
WhereIdx(rows, column, value) == { i \in 1..Len(rows) : rows[i][column] = value }

\* EventsFilterFields: the members the enum declares (there is no TITLE member)
EventsFilterFields ==
    [TITTLE |-> "tittle", DESCRIPTION |-> "description", LOCATION |-> "location"]

\* EventsFilterFields.<member>: <<column>>, or <<>> (undefined) for a missing member
EnumMember(member) ==
    IF member \in DOMAIN EventsFilterFields THEN <<EventsFilterFields[member]>> ELSE <<>>

\* filterbyField(field, value): query => query.where(field, value)
filterbyField(field, value) == [type |-> "where", column |-> field, value |-> value]

\* filterByDateEqualTo(dateField, date): query => query.where(dateField, date)
filterByDateEqualTo(dateField, date) == [type |-> "where", column |-> <<dateField>>, value |-> date]

\* documentVector(queryString): query => query.whereRaw("document @@ to_tsquery(...)")
documentVector(queryString) == [type |-> "whereRaw", column |-> <<"document">>, value |-> queryString]

\* getQueryBuilderFunctions(filterBody): one query function per truthy field,
\* in the order location, title, date, rsvpEndDate, q
getQueryBuilderFunctions(filterBody) ==
    (IF Truthy(filterBody, "location")
        THEN <<filterbyField(EnumMember("LOCATION"), Read(filterBody, "location"))>> ELSE <<>>)
    \o (IF Truthy(filterBody, "title")
        THEN <<filterbyField(EnumMember("TITLE"), Read(filterBody, "title"))>> ELSE <<>>)
    \o (IF Truthy(filterBody, "date")
        THEN <<filterByDateEqualTo("date", Read(filterBody, "date"))>> ELSE <<>>)
    \o (IF Truthy(filterBody, "rsvpEndDate")
        THEN <<filterByDateEqualTo("rsvpEndDate", Read(filterBody, "date"))>> ELSE <<>>)
    \o (IF Truthy(filterBody, "q")
        THEN <<documentVector(Read(filterBody, "q"))>> ELSE <<>>)

RECURSIVE pipe(_, _)
\* pipe(...fns)(query): left-to-right fold; each function adds its clause to the query
pipe(fns, query) ==
    IF fns = <<>> THEN query
    ELSE pipe(Tail(fns), Append(query, Head(fns)))

\* the server-side "document" column matched by to_tsquery: the text of the
\* title and the description of the row
DocumentMatch(row, queryString) == queryString \in {row.tittle, row.description}

\* a clause the query builder or the database rejects: a column that is
\* undefined (compiled to a column the table does not have) or an undefined
\* binding (knex: "Undefined binding(s) detected when compiling SELECT")
ClauseFails(clause) == clause.column = <<>> \/ clause.value = <<>>

ClauseHolds(row, clause) ==
    IF clause.type = "whereRaw"
    THEN DocumentMatch(row, clause.value[1])
    ELSE row[clause.column[1]] = clause.value[1]

\* awaiting a select query over the events table
RunSelect(rows, query) ==
    IF \E i \in 1..Len(query) : ClauseFails(query[i])
    THEN StorageError
    ELSE Ok(SelectSeq2(rows, { r \in 1..Len(rows) :
                                 \A i \in 1..Len(query) : ClauseHolds(rows[r], query[i]) }))

----------------------------------------------------------------------------
(* EventsResourceImplementation: the operations as functions of the table *)

\* insert(eventBody, '*'): the row the storage persists
InsertedRow(eventBody, id) ==
    [f \in RawEventBodyFields |-> IF f = "id" THEN id ELSE eventBody[f]]

\* first() without the where clause: the first row of the table
FirstWhereNoWhere(rows, lookupKey, value) ==
    IF rows = <<>> THEN Undefined ELSE Ok(<<rows[1]>>)

\* knexInstance(EVENTS_TABLE).where(lookupKey, value).first(), once resolved
FirstWhere(rows, lookupKey, value) ==
    LET hit == WhereIdx(rows, lookupKey, value)
    IN IF hit = {} THEN Undefined
       ELSE Ok(<<rows[CHOOSE i \in hit : \A j \in hit : i <= j]>>)

\* "!event" in getEvent: event is the query builder object, not its result,
\* and an object is never falsy
PendingQueryIsFalsy(rows, lookupKey, value) == FALSE

\* getEvent(lookupKey, value)
getEvent(rows, lookupKey, value) ==
    IF PendingQueryIsFalsy(rows, lookupKey, value)
    THEN EventNotFountError(0)
    ELSE FirstWhere(rows, lookupKey, value)

\* filterEvents(filterBody)
filterEvents(rows, filterBody) ==
    RunSelect(rows, pipe(getQueryBuilderFunctions(filterBody), <<>>))

\* select('*').limit(limit) without the offset
PageWithoutOffset(rows, offset, limit) ==
    SubSeq(rows, 1, IF limit < Len(rows) THEN limit ELSE Len(rows))

\* select('*').offset(offset).limit(limit)
Page(rows, offset, limit) ==
    SubSeq(rows, offset + 1, IF offset + limit < Len(rows) THEN offset + limit ELSE Len(rows))

\* getAll(offset, limit)
getAll(rows, offset, limit) ==
    LET page == Page(rows, offset, limit)
    IN IF Len(page) = 0 THEN EventNotFountError(404) ELSE Ok(page)

\* update(updateBody) applied to one row: the fields present are overwritten
UpdatedRow(row, updateBody) ==
    [f \in RawEventBodyFields |-> IF f \in DOMAIN updateBody THEN updateBody[f] ELSE row[f]]

\* update(updateBody) without the where clause: every row is overwritten
UpdatedRowsNoWhere(rows, updateBody, eventId) ==
    [i \in 1..Len(rows) |-> UpdatedRow(rows[i], updateBody)]

\* the table after update(updateBody).where('id', eventId)
UpdatedRows(rows, updateBody, eventId) ==
    [i \in 1..Len(rows) |->
        IF rows[i].id = eventId THEN UpdatedRow(rows[i], updateBody) ELSE rows[i]]

\* knex refuses an update that sets no column ("Empty .update() call detected")
EmptyUpdate(updateBody) == DOMAIN updateBody = {}

\* update(updateBody, eventId): returning('*')[0]
update(rows, updateBody, eventId) ==
    IF EmptyUpdate(updateBody) THEN StorageError
    ELSE LET after == UpdatedRows(rows, updateBody, eventId)
             returned == SelectSeq2(after, WhereIdx(rows, "id", eventId))
         IN IF returned = <<>> THEN Undefined ELSE Ok(<<returned[1]>>)

\* delete() without the where clause: every row is removed
DeletedRowsNoWhere(rows, eventId) == <<>>

\* the table after delete().where('id', eventId)
DeletedRows(rows, eventId) ==
    SelectSeq2(rows, (1..Len(rows)) \ WhereIdx(rows, "id", eventId))

----------------------------------------------------------------------------
(* Spec: the events resource *)

InitEvents ==
    /\ events = <<>>
    /\ nextId = 1
    /\ lastOp = Call("none", NoArg, NoArg, NoArg, Void)

InitConfigIdle ==
    /\ env = <<>>
    /\ cfgPc = "idle"
    /\ config = <<>>

InitSuiteIdle ==
    /\ suitePc = "idle"
    /\ db = [applied |-> 0, rows |-> 0]
    /\ suiteEnv = [env |-> "test", testDbName |-> "bright-events-test"]
    /\ migLog = <<>>
    /\ testsLeft = 0
    /\ bodySteps = 0
    /\ leftBehind = db

Init == InitEvents /\ InitConfigIdle /\ InitSuiteIdle

Create ==
    \E eventBody \in EventBodies :
        /\ nextId <= MaxId
        /\ LET created == InsertedRow(eventBody, nextId)
           IN /\ events' = Append(events, created)
              /\ lastOp' = Call("create", NoArg, NoArg, eventBody, Ok(<<created>>))
        /\ nextId' = nextId + 1
        /\ UNCHANGED <<configVars, suiteVars>>

GetEvent ==
    \E lookupKey \in EventLookUpKey :
        \E value \in LookupValues(lookupKey) :
            /\ lastOp' = Call("getEvent", lookupKey, value, NoArg,
                              getEvent(events, lookupKey, value))
            /\ UNCHANGED <<events, nextId, configVars, suiteVars>>

FilterEvents ==
    \E filterBody \in FilterBodies :
        /\ lastOp' = Call("filterEvents", NoArg, NoArg, filterBody,
                          filterEvents(events, filterBody))
        /\ UNCHANGED <<events, nextId, configVars, suiteVars>>

GetAll ==
    \E offset \in 0..MaxOffset, limit \in 0..MaxLimit :
        /\ lastOp' = Call("getAll", NoArg, <<offset, limit>>, NoArg,
                          getAll(events, offset, limit))
        /\ UNCHANGED <<events, nextId, configVars, suiteVars>>

Update ==
    \E updateBody \in UpdateBodies, eventId \in Ids :
        /\ events' = IF EmptyUpdate(updateBody) THEN events
                     ELSE UpdatedRows(events, updateBody, eventId)
        /\ lastOp' = Call("update", NoArg, eventId, updateBody,
                          update(events, updateBody, eventId))
        /\ UNCHANGED <<nextId, configVars, suiteVars>>

Delete ==
    \E eventId \in Ids :
        /\ events' = DeletedRows(events, eventId)
        /\ lastOp' = Call("delete", NoArg, eventId, NoArg, Void)
        /\ UNCHANGED <<nextId, configVars, suiteVars>>

Next == Create \/ GetEvent \/ FilterEvents \/ GetAll \/ Update \/ Delete

Spec == Init /\ [][Next]_vars

----------------------------------------------------------------------------
(* Properties of the events resource, checked under Spec *)

Min(a, b) == IF a < b THEN a ELSE b

\* the rows of the table satisfying P, in storage order, computed index by index
RowsWhere(rows, P(_)) == SelectSeq(rows, P)

\* C1: getEvent(lookupKey, value) fails with NotFound when no event row has
\* that key equal to that value; it never returns an empty/undefined result.
C1_GetEventNotFoundWhenNoMatch ==
    (/\ lastOp.op = "getEvent"
     /\ ~ (\E i \in 1..Len(events) : events[i][lastOp.key] = lastOp.value))
    => lastOp.result.kind = "NotFound"

\* the column a single-field filter criterion constrains
CriterionColumn(field) == IF field = "title" THEN "tittle" ELSE field

EqualityCriteria == {"location", "title", "date", "rsvpEndDate"}

\* C2: a filter body with exactly one field set among location, title,
\* date, rsvp-end-date returns exactly the rows whose corresponding column
\* equals the given value.
C2_SingleFieldFilterExact ==
    (lastOp.op = "filterEvents"
       /\ Cardinality(DOMAIN lastOp.body) = 1
       /\ DOMAIN lastOp.body \subseteq EqualityCriteria)
    => LET field == CHOOSE f \in DOMAIN lastOp.body : TRUE
           Matches(row) == row[CriterionColumn(field)] = lastOp.body[field]
       IN lastOp.result = Ok(RowsWhere(events, Matches))

\* the page the claim describes: the rows after the first offset rows, at most limit of them
ExpectedPage(rows, offset, limit) ==
    [i \in 1..Min(limit, Len(rows) - offset) |-> rows[offset + i]]

\* C3 as stated: getAll(offset, limit) with offset >= N fails with NotFound;
\* with offset < N it returns at most limit rows, the rows starting after
\* the first offset rows in storage order.
C3_GetAllAsStated ==
    lastOp.op = "getAll"
    => LET offset == lastOp.value[1]
           limit == lastOp.value[2]
       IN IF offset >= Len(events)
          THEN lastOp.result.kind = "NotFound"
          ELSE /\ lastOp.result.kind = "ok"
               /\ Len(lastOp.result.rows) <= limit
               /\ lastOp.result.rows = ExpectedPage(events, offset, limit)

\* C3 amended: for non-negative offset and limit, getAll(offset, limit) fails
\* with NotFound (status 404) when offset >= N or limit = 0; with offset < N
\* and limit >= 1 it returns at most limit rows, the rows starting after the
\* first offset rows in storage order.
C3_GetAllPage ==
    lastOp.op = "getAll"
    => LET offset == lastOp.value[1]
           limit == lastOp.value[2]
       IN IF offset >= Len(events) \/ limit = 0
          THEN lastOp.result = EventNotFountError(404)
          ELSE /\ lastOp.result.kind = "ok"
               /\ Len(lastOp.result.rows) <= limit
               /\ Len(lastOp.result.rows) >= 1
               /\ lastOp.result.rows = ExpectedPage(events, offset, limit)

\* a page cut by the limit, taken past the first row of a table of three rows
C3_Witness ==
    /\ lastOp.op = "getAll"
    /\ lastOp.value = <<1, 1>>
    /\ Len(events) = 3
    /\ lastOp.result = Ok(<<events[2]>>)

\* C4: create(eventBody) returns the persisted record with a generated
\* identifier, and a following getEvent(ID, <returned id>) returns a record
\* equal to the created record.
C4_CreateThenGetEvent ==
    lastOp.op = "create"
    => /\ lastOp.result.kind = "ok"
       /\ Len(lastOp.result.rows) = 1
       /\ LET created == lastOp.result.rows[1]
          IN /\ \A f \in EventBodyFields : created[f] = lastOp.body[f]
             /\ created.id \in 1..MaxId
             /\ Cardinality({ i \in 1..Len(events) : events[i].id = created.id }) = 1
             /\ getEvent(events, "id", created.id) = Ok(<<created>>)

\* a create whose record is not the first row of the table
C4_Witness ==
    /\ lastOp.op = "create"
    /\ Len(events) >= 2
    /\ events[1].slug # lastOp.result.rows[1].slug
    /\ events[Len(events)] = lastOp.result.rows[1]

\* C5: for an existing event id, update(partial, id) followed by
\* getEvent(ID, id) returns a record in which exactly the fields present in
\* the partial body carry the new values and every unmentioned field
\* (the identifier included) keeps its prior value; all other rows are unchanged.
C5_UpdateFrame ==
    [][ (lastOp'.op = "update" /\ getEvent(events, "id", lastOp'.value).kind = "ok")
        => /\ Len(events') = Len(events)
           /\ \A id \in Ids :
                LET before == getEvent(events, "id", id)
                    after == getEvent(events', "id", id)
                IN IF id = lastOp'.value
                   THEN /\ after.kind = "ok"
                        /\ \A f \in RawEventBodyFields :
                             after.rows[1][f] =
                                IF f \in DOMAIN lastOp'.body
                                THEN lastOp'.body[f]
                                ELSE before.rows[1][f]
                   ELSE after = before
           /\ \A i \in 1..Len(events) :
                events[i].id # lastOp'.value => events'[i] = events[i] ]_vars

\* an update that changed a row while another row, with other values, stands beside it
C5_Witness ==
    /\ lastOp.op = "update"
    /\ lastOp.result.kind = "ok"
    /\ lastOp.body = [location |-> "SF", tittle |-> "t1"]
    /\ lastOp.result.rows[1].location = "SF"
    /\ lastOp.result.rows[1].slug = "s2"
    /\ \E i \in 1..Len(events) : events[i].id # lastOp.value /\ events[i].location = "LA"

\* C6: delete(id) followed by getEvent(ID, id) fails with NotFound.
C6_DeleteThenGetEventNotFound ==
    lastOp.op = "delete"
    => getEvent(events, "id", lastOp.value).kind = "NotFound"

\* the predicate a present filter field stands for
CriterionHolds(row, field, value) ==
    IF field = "q" THEN DocumentMatch(row, value)
    ELSE row[CriterionColumn(field)] = value

\* C7: filterEvents returns exactly the events that satisfy the conjunction
\* of the predicates of all present fields; an empty criteria record returns
\* the full event set without error.
C7_FilterConjunction ==
    lastOp.op = "filterEvents"
    => LET Matches(row) ==
               \A field \in DOMAIN lastOp.body :
                   CriterionHolds(row, field, lastOp.body[field])
       IN lastOp.result = Ok(RowsWhere(events, Matches))

\* C10 as stated: when eventId matches no row, update returns an undefined
\* result and delete returns nothing, neither raises an error, and the
\* events table is left unchanged.
C10_NoMatchAsStated ==
    [][ (/\ lastOp'.op \in {"update", "delete"}
         /\ ~ (\E i \in 1..Len(events) : events[i].id = lastOp'.value))
        => /\ lastOp'.result = IF lastOp'.op = "update" THEN Undefined ELSE Void
           /\ events' = events ]_vars

\* C10 amended: when eventId matches no row, update(updateBody, eventId)
\* with at least one field present in updateBody returns an undefined result
\* and delete(eventId) returns nothing, neither raises an error, and the
\* events table is left unchanged.
C10_NoMatchSilent ==
    [][ (/\ lastOp'.op \in {"update", "delete"}
         /\ ~ (\E i \in 1..Len(events) : events[i].id = lastOp'.value)
         /\ (lastOp'.op = "update" => DOMAIN lastOp'.body # {}))
        => /\ lastOp'.result = IF lastOp'.op = "update" THEN Undefined ELSE Void
           /\ events' = events ]_vars

\* an update, with fields to set, of an identifier that was deleted, on a
\* table that still holds rows
C10_Witness ==
    /\ lastOp.op = "update"
    /\ lastOp.body = [location |-> "SF", tittle |-> "t1"]
    /\ lastOp.result = Undefined
    /\ lastOp.value < nextId
    /\ Len(events) >= 2
    /\ ~ \E i \in 1..Len(events) : events[i].id = lastOp.value

----------------------------------------------------------------------------
(* Configuration loader: config/index.ts *)

\* an optional value: <<>> when unset (undefined / null), <<v>> when set
Opt(S) == {<<>>} \cup { <<v>> : v \in S }

\* the process environments the loader is started in
Environments ==
    [NODE_ENV          : Opt({"development", "production", "test", "staging", "qa", ""}),
     PORT              : Opt({"3000", "abc"}),
     DATABASE          : Opt({"events", ""}),
     TEST_DB           : Opt({"events_test"}),
     DATABASE_DIALECT  : Opt({"mysql"}),
     DATABASE_PASSWORD : Opt({"secret"}),
     DATABASE_USER     : Opt({"admin"}),
     DATABASE_URL      : Opt({"postgres://db"}),
     HOST              : Opt({"localhost"})]

\* the environment strings joi.number() converts, with their values
NumericStrings == ("3000" :> 3000)

\* joi.number().default(8080)
DefaultPort == 8080

Invalid == [error |-> TRUE, value |-> <<>>]
Valid(v) == [error |-> FALSE, value |-> v]

\* .allow([...]) puts the values on the whitelist of a key and forbids nothing
NodeEnvAllowed == {"development", "production", "test", "staging"}

\* joi.string() with .allow(allowed), .required() or .default(default):
\* a listed value passes, the empty string is refused, any other string passes
StringRule(v, allowed, required, default) ==
    IF v = <<>> THEN (IF required THEN Invalid ELSE Valid(default))
    ELSE IF v[1] \in allowed THEN Valid(v)
    ELSE IF v[1] = "" THEN Invalid
    ELSE Valid(v)

\* joi.number().default(8080): a numeric string is converted, any other refused
NumberRule(v, default) ==
    IF v = <<>> THEN Valid(<<default>>)
    ELSE IF v[1] \in DOMAIN NumericStrings THEN Valid(<<NumericStrings[v[1]]>>)
    ELSE Invalid

\* envVarsSchema: the verdict of each key
envVarsSchema(e) ==
    [NODE_ENV          |-> StringRule(e.NODE_ENV, NodeEnvAllowed, TRUE, <<>>),
     PORT              |-> NumberRule(e.PORT, DefaultPort),
     DATABASE          |-> StringRule(e.DATABASE, {}, TRUE, <<>>),
     TEST_DB           |-> StringRule(e.TEST_DB, {}, FALSE, <<"events_test_db">>),
     DATABASE_DIALECT  |-> StringRule(e.DATABASE_DIALECT, {}, FALSE, <<"postgres">>),
     DATABASE_PASSWORD |-> StringRule(e.DATABASE_PASSWORD, {}, FALSE, <<>>),
     DATABASE_USER     |-> StringRule(e.DATABASE_USER, {}, TRUE, <<>>),
     DATABASE_URL      |-> StringRule(e.DATABASE_URL, {}, FALSE, <<>>),
     HOST              |-> StringRule(e.HOST, {}, TRUE, <<>>)]

\* joi.validate(process.env, envVarsSchema): { error, value }
validate(e) ==
    LET verdict == envVarsSchema(e)
    IN [error |-> \E k \in DOMAIN verdict : verdict[k].error,
        value |-> [k \in DOMAIN verdict |-> verdict[k].value]]

\* a || b on optional strings
OrElse(v, fallback) == IF v = <<>> \/ v[1] = "" THEN <<fallback>> ELSE v

\* the exported config object
ConfigObject(envVars) ==
    [env         |-> OrElse(envVars.NODE_ENV, "development"),
     port        |-> envVars.PORT,
     dbName      |-> envVars.DATABASE,
     testDbName  |-> envVars.TEST_DB,
     dbUsername  |-> envVars.DATABASE_USER,
     dbDialect   |-> envVars.DATABASE_DIALECT,
     dbPassword  |-> envVars.DATABASE_PASSWORD,
     databaseUrl |-> envVars.DATABASE_URL,
     host        |-> envVars.HOST]

InitConfig ==
    /\ env \in Environments
    /\ cfgPc = "start"
    /\ config = <<>>

\* loading the module: validate, then throw or export
LoadConfig ==
    /\ cfgPc = "start"
    /\ LET result == validate(env)
       IN IF result.error
          THEN /\ cfgPc' = "aborted"    \* throw new Error("Config validation error: ...")
               /\ config' = <<>>
          ELSE /\ cfgPc' = "loaded"
               /\ config' = <<ConfigObject(result.value)>>
    /\ UNCHANGED <<env, eventVars, suiteVars>>

NextConfig == LoadConfig

InitConfigSpec == InitEvents /\ InitConfig /\ InitSuiteIdle

SpecConfig == InitConfigSpec /\ [][NextConfig]_vars

\* C8: configuration loading produces a configuration object only when
\* NODE_ENV is present and is one of development/production/test/staging and
\* DATABASE, DATABASE_USER and HOST are present; for every other environment
\* it aborts with a validation error and no configuration object is produced.
C8_ConfigOnlyForValidEnvironment ==
    cfgPc # "start"
    => \/ /\ env.NODE_ENV # <<>>
          /\ env.NODE_ENV[1] \in {"development", "production", "test", "staging"}
          /\ env.DATABASE # <<>>
          /\ env.DATABASE_USER # <<>>
          /\ env.HOST # <<>>
       \/ (cfgPc = "aborted" /\ config = <<>>)

----------------------------------------------------------------------------
(* Test lifecycle helper: describeDbTestSuite *)

MaxMigrations == 2   \* migrations of the project
MaxDbRows     == 2   \* rows a test database holds
MaxTests      == 2   \* tests of a group
MaxBodySteps  == 2   \* statements of a test body that touch the database

EmptyDb == [applied |-> 0, rows |-> 0]
FreshDb == [applied |-> MaxMigrations, rows |-> 0]

\* the states a database can be left in: rows live in migrated tables only
DbStates ==
    { d \in [applied : 0..MaxMigrations, rows : 0..MaxDbRows] :
        d.applied = 0 => d.rows = 0 }

\* a test undoes the last migration: its table goes, the others keep their rows
DropLastMigration(d) ==
    IF d.applied <= 1 THEN EmptyDb ELSE [applied |-> d.applied - 1, rows |-> d.rows]

\* rollback(config.migrations) without the "all" flag: one migration is undone
MigrateRollbackOne(d) ==
    IF d.applied <= 1 THEN EmptyDb ELSE [applied |-> d.applied - 1, rows |-> d.rows]

\* knexInstance.migrate.rollback(config.migrations, true): every migration is
\* undone, the tables and their rows go
MigrateRollbackAll(d) == EmptyDb

\* knexInstance.migrate.latest(config.migrations): the pending migrations are applied
MigrateLatest(d) == [applied |-> MaxMigrations, rows |-> d.rows]

\* the last two migration calls of the helper
Logged(log, call) == IF Len(log) < 2 THEN Append(log, call) ELSE <<log[2], call>>

\* envConfig.env !== 'test' || envConfig.db.testDbName !== 'bright-events-test'
NotInTestEnvironment(e) == e.env # "test" \/ e.testDbName # "bright-events-test"

InitSuite ==
    /\ suitePc = "load"
    /\ db \in DbStates
    /\ suiteEnv \in [env : {"test", "development"},
                     testDbName : {"bright-events-test", "events_test_db"}]
    /\ migLog = <<>>
    /\ testsLeft \in 1..MaxTests
    /\ bodySteps = 0
    /\ leftBehind = db

\* module load: the guard, then describe() registers the hooks and the tests
LoadHelper ==
    /\ suitePc = "load"
    /\ suitePc' = IF NotInTestEnvironment(suiteEnv) THEN "aborted" ELSE "beforeAll"
    /\ UNCHANGED <<db, suiteEnv, migLog, testsLeft, bodySteps, leftBehind, eventVars, configVars>>

\* a hook step that calls rollback(config.migrations, true)
RollbackStep(from, to) ==
    /\ suitePc = from
    /\ db' = MigrateRollbackAll(db)
    /\ migLog' = Logged(migLog, "rollback")
    /\ suitePc' = to

\* a hook step that calls latest(config.migrations)
LatestStep(from, to) ==
    /\ suitePc = from
    /\ db' = MigrateLatest(db)
    /\ migLog' = Logged(migLog, "latest")
    /\ suitePc' = to

BeforeAllRollback ==
    /\ RollbackStep("beforeAll", "beforeAllLatest")
    /\ UNCHANGED <<suiteEnv, testsLeft, bodySteps, leftBehind, eventVars, configVars>>

BeforeAllLatest ==
    /\ LatestStep("beforeAllLatest", "beforeEach")
    /\ UNCHANGED <<suiteEnv, testsLeft, bodySteps, leftBehind, eventVars, configVars>>

BeforeEachRollback ==
    /\ RollbackStep("beforeEach", "beforeEachLatest")
    /\ UNCHANGED <<suiteEnv, testsLeft, bodySteps, leftBehind, eventVars, configVars>>

\* the test body starts when the beforeEach hook has resolved
BeforeEachLatest ==
    /\ LatestStep("beforeEachLatest", "testBody")
    /\ bodySteps' = 0
    /\ UNCHANGED <<suiteEnv, testsLeft, leftBehind, eventVars, configVars>>

\* the test body inserts a row
TestInsertsRow ==
    /\ suitePc = "testBody"
    /\ bodySteps < MaxBodySteps
    /\ db.applied > 0
    /\ db.rows < MaxDbRows
    /\ db' = [db EXCEPT !.rows = @ + 1]
    /\ bodySteps' = bodySteps + 1
    /\ UNCHANGED <<suitePc, suiteEnv, migLog, testsLeft, leftBehind, eventVars, configVars>>

\* the test body changes the schema: it undoes the last migration
TestChangesSchema ==
    /\ suitePc = "testBody"
    /\ bodySteps < MaxBodySteps
    /\ db.applied > 0
    /\ db' = DropLastMigration(db)
    /\ bodySteps' = bodySteps + 1
    /\ UNCHANGED <<suitePc, suiteEnv, migLog, testsLeft, leftBehind, eventVars, configVars>>

\* the test body returns (or fails); jest runs the afterEach hook next
TestEnds ==
    /\ suitePc = "testBody"
    /\ suitePc' = "afterEach"
    /\ testsLeft' = testsLeft - 1
    /\ leftBehind' = db
    /\ UNCHANGED <<db, suiteEnv, migLog, bodySteps, eventVars, configVars>>

AfterEach ==
    /\ RollbackStep("afterEach", IF testsLeft > 0 THEN "beforeEach" ELSE "afterAll")
    /\ UNCHANGED <<suiteEnv, testsLeft, bodySteps, leftBehind, eventVars, configVars>>

AfterAll ==
    /\ RollbackStep("afterAll", "done")
    /\ UNCHANGED <<suiteEnv, testsLeft, bodySteps, leftBehind, eventVars, configVars>>

NextSuite ==
    \/ LoadHelper
    \/ BeforeAllRollback \/ BeforeAllLatest
    \/ BeforeEachRollback \/ BeforeEachLatest
    \/ TestInsertsRow \/ TestChangesSchema \/ TestEnds
    \/ AfterEach \/ AfterAll

InitSuiteSpec == InitEvents /\ InitConfigIdle /\ InitSuite

SpecSuite == InitSuiteSpec /\ [][NextSuite]_vars

\* C9: in a group wrapped by describeDbTestSuite, whatever rows or schema
\* changes earlier tests left behind, each test body starts only after a full
\* rollback followed by a re-application of all migrations (an empty,
\* freshly-migrated schema), and a full rollback follows each test and the
\* whole group.
C9_FreshSchemaAroundEachTest ==
    [][ /\ (suitePc' = "testBody" /\ suitePc # "testBody")
           => (migLog' = <<"rollback", "latest">> /\ db' = FreshDb /\ bodySteps' = 0)
        /\ (suitePc = "testBody" /\ suitePc' # "testBody")
           => suitePc' = "afterEach"
        /\ (suitePc = "afterEach" /\ suitePc' # "afterEach")
           => (migLog'[Len(migLog')] = "rollback" /\ db' = EmptyDb)
        /\ (suitePc' = "done" /\ suitePc # "done")
           => (suitePc = "afterAll" /\ testsLeft = 0
               /\ migLog' = <<"rollback", "rollback">> /\ db' = EmptyDb) ]_vars

\* a test starts on a fresh schema although the test before it left a row
\* and a schema change behind
C9_Witness ==
    /\ suitePc = "testBody"
    /\ bodySteps = 0
    /\ leftBehind = [applied |-> MaxMigrations - 1, rows |-> 1]
    /\ db = FreshDb
    /\ migLog = <<"rollback", "latest">>

====
